---------------------------- MODULE Spec2Model ----------------------------
(***************************************************************************)
(* Grading core of the pegnet oracle-price network.                        *)
(*                                                                         *)
(*   package opr    (src/opr/grading.go): Avg, CalculateGrade,             *)
(*                   GradeMinimum, GradeBlock, RemoveDuplicateSubmissions, *)
(*                   VerifyWinners, GetRewardFromPlace                     *)
(*   package grader (src/unnamed/part_000): baseGrader.filterDuplicates,   *)
(*                   baseGrader.sortByDifficulty                           *)
(*                                                                         *)
(* Byte slices are sequences of numbers 0..255, a uint64 is a natural      *)
(* number, a float64 price is an integer and a grade an exact fraction     *)
(* [num, den] (rounding of float64 arithmetic is not modelled).  A Go      *)
(* slice that may be nil is a record [isNil, elems].                       *)
(***************************************************************************)
EXTENDS Integers, Sequences, FiniteSets, TLC

VARIABLES
    component,   \* which part of the package the behaviour exercises
    sortedList,  \* opr: the records the caller holds, in the order submitted
    cursor,      \* opr: index in OprUniverse of the last record submitted
    op,          \* the function or method last called ("none" before any call)
    argList,     \* opr: the list that call was given, as it was then
    graded,      \* opr: its first return value
    sorted,      \* opr: GradeBlock's second return value
    bgOprs,      \* grader: baseGrader.oprs
    bgPrev,      \* grader: baseGrader.oprs before the last method call
    bgLimit,     \* grader: the limit of the last sortByDifficulty call
    vwRefs,      \* VerifyWinners: opr.WinPreviousOPR
    vwWinners,   \* VerifyWinners: winners
    vwResult,    \* VerifyWinners: "true", "false" or "panic" ("none" before)
    place,       \* GetRewardFromPlace: place
    reward       \* GetRewardFromPlace: the value returned

vars == <<component, sortedList, cursor, op, argList, graded, sorted,
          bgOprs, bgPrev, bgLimit, vwRefs, vwWinners, vwResult,
          place, reward>>

(***************************************************************************)
(* Bounds of the model.                                                    *)
(***************************************************************************)
\* how many records of OprUniverse a submitted list may leave out
MaxSkip == 4
\* how many more records a long list holds
NumFillers == 40
\* how many records a baseGrader holds at most
MaxOprs == 4
\* the largest limit passed to sortByDifficulty
MaxLimit == 3
\* the longest WinPreviousOPR list
MaxRefs == 3
\* the longest previous-winners list
MaxWinners == 2
\* the largest place asked of GetRewardFromPlace
MaxPlace == 60
\* how many negative places are asked of GetRewardFromPlace
NegPlaces == 2

(***************************************************************************)
(* Slices and bytes.                                                       *)
(***************************************************************************)
NilSlice == [isNil |-> TRUE, elems |-> <<>>]

Slice(s) == [isNil |-> FALSE, elems |-> s]

\* the function f with domain 1..n as the sequence of its values
SeqOf(f) == SubSeq(f, 1, Cardinality(DOMAIN f))

\* Go's append(a, b...) read as a value: the bytes of a followed by those of b
AppendBytes(a, b) == a \o b

\* binary.BigEndian.Uint64: the first 8 bytes, most significant first
BigEndianUint64(b) ==
    LET F[i \in 0..8] == IF i = 0 THEN 0 ELSE F[i - 1] * 256 + b[i]
    IN  F[8]

\* the 8 bytes big-endian of a number below 2^16 (how a miner writes
\* SelfReportedDifficulty)
Bytes8(d) == <<0, 0, 0, 0, 0, 0, (d \div 256) % 256, d % 256>>

HexDigits == <<"0", "1", "2", "3", "4", "5", "6", "7",
               "8", "9", "a", "b", "c", "d", "e", "f">>

\* hex.EncodeToString: two lower-case digits per byte
HexEncodeToString(b) ==
    LET F[i \in 0..Len(b)] ==
            IF i = 0 THEN ""
            ELSE F[i - 1] \o HexDigits[(b[i] \div 16) + 1] \o HexDigits[(b[i] % 16) + 1]
    IN  F[Len(b)]

(***************************************************************************)
(* The hash primitive (modules/lxr30, opaque): a deterministic function    *)
(* from bytes to at least 8 bytes.  The model's hash depends on the order  *)
(* of its input bytes and collides on some inputs.                         *)
(***************************************************************************)
LXRHash(b) ==
    LET F[i \in 0..Len(b)] ==
            IF i = 0 THEN 7 ELSE (F[i - 1] * 5 + b[i] * 3 + i) % 601
    IN  Bytes8(F[Len(b)]) \o <<0>>

\* OraclePriceRecord.ComputeDifficulty(nonce): the hash of OPRHash ++ nonce,
\* its first 8 bytes read as a big-endian uint64
ComputeDifficulty(opr, nonce) ==
    BigEndianUint64(LXRHash(AppendBytes(opr.OPRHash, nonce)))


(***************************************************************************)
(* sort.SliceStable(x, less): a stable sort.  Its result is the one of the *)
(* insertion sort below (record i moves left past the records it is less   *)
(* than) whenever less is a strict weak order, and x itself when less      *)
(* never holds.  less is given on the positions of s.                      *)
(***************************************************************************)
\* for j := i; j > a && less(j, j-1); j-- : where the record at position x
\* of s stops among the positions t already sorted
RECURSIVE InsertionPoint(_, _, _, _)
InsertionPoint(less, t, x, j) ==
    IF j > 0 /\ less[x, t[j]] THEN InsertionPoint(less, t, x, j - 1) ELSE j

SliceStable(s, less) ==
    LET n == Len(s)
        P[i \in 0..n] ==
            IF i = 0 THEN <<>>
            ELSE LET t == P[i - 1]
                     k == InsertionPoint(less, t, i, i - 1)
                 IN  SubSeq(t, 1, k) \o <<i>> \o SubSeq(t, k + 1, i - 1)
        perm == P[n]
    IN  SeqOf([k \in 1..n |-> s[perm[k]]])

(***************************************************************************)
(* package opr                                                             *)
(***************************************************************************)
\* len(common.AllAssets)
NumAssets == 2

Abs(x) == IF x >= 0 THEN x ELSE -x

Pow4(x) == x * x * x * x

\* a float64 as an exact fraction; the denominator is positive
Frac(n, d) == [num |-> n, den |-> d]

FracLess(a, b) ==
    IF a.den = b.den THEN a.num < b.num ELSE a.num * b.den < b.num * a.den

\* Avg: per asset, the sum of the absolute values of the prices divided by
\* the number of records
Avg(list) ==
    [i \in 1..NumAssets |->
        LET S[j \in 0..Len(list)] ==
                IF j = 0 THEN 0 ELSE S[j - 1] + Abs(list[j].tokens[i])
        IN  Frac(S[Len(list)], Len(list))]

\* CalculateGrade: opr.Grade is reset, then for each asset whose average is
\* positive d = (value - avg) / avg and Grade grows by d^4.  With avg = S/n,
\* d = (n*value - S) / S.  The record as CalculateGrade leaves it.
CalculateGrade(avg, opr) ==
    LET G[i \in 0..NumAssets] ==
            IF i = 0 THEN Frac(0, 1)
            ELSE LET grade == G[i - 1]
                     x == opr.tokens[i] * avg[i].den - avg[i].num
                     s == Pow4(avg[i].num)
                 IN  IF avg[i].num > 0
                     THEN Frac(grade.num * s + Pow4(x) * grade.den, grade.den * s)
                     ELSE grade
    IN  [opr EXCEPT !.Grade = G[NumAssets]]

\* SubmissionID with the record hash before the nonce
SubmissionID_HashFirst(v) == AppendBytes(v.OPRHash, v.Nonce)

\* the identity of a submission: string(append(v.Nonce, v.OPRHash...))
SubmissionID(v) == AppendBytes(v.Nonce, v.OPRHash)

\* RemoveDuplicateSubmissions: the records whose id was not added before
RemoveDuplicateSubmissions(list) ==
    LET F[i \in 0..Len(list)] ==
            IF i = 0 THEN [added |-> {}, nlist |-> <<>>]
            ELSE LET id == SubmissionID(list[i])
                     prev == F[i - 1]
                 IN  IF id \notin prev.added
                     THEN [added |-> prev.added \cup {id},
                           nlist |-> Append(prev.nlist, list[i])]
                     ELSE prev
    IN  F[Len(list)].nlist

\* sort.SliceStable(x, func(i, j) { return x[i].Difficulty > x[j].Difficulty })
SortByDifficulty(x) ==
    SliceStable(x, [i, j \in 1..Len(x) |-> x[i].Difficulty > x[j].Difficulty])

\* sort.SliceStable(x, func(i, j) { return x[i].Grade < x[j].Grade })
SortByGrade(x) ==
    SliceStable(x, [i, j \in 1..Len(x) |-> FracLess(x[i].Grade, x[j].Grade)])

\* GradePass with its two sorts in the other order
GradePass_GradeSortFirst(top, i) ==
    LET avg == Avg(SubSeq(top, 1, i))
        head == SeqOf([j \in 1..i |-> CalculateGrade(avg, top[j])])
    IN  SortByDifficulty(SortByGrade(head)) \o SubSeq(top, i + 1, Len(top))

\* one pass of the loop both grading functions end with: top[:i] is graded
\* against its own average, then sorted by difficulty (descending), then by
\* grade (ascending); the records after the first i stay as they are
GradePass(top, i) ==
    LET avg == Avg(SubSeq(top, 1, i))
        head == SeqOf([j \in 1..i |-> CalculateGrade(avg, top[j])])
    IN  SortByGrade(SortByDifficulty(head)) \o SubSeq(top, i + 1, Len(top))

\* for i := len(top); i >= 10; i-- { ... }
RECURSIVE GradeLoop(_, _)
GradeLoop(top, i) ==
    IF i < 10 THEN top
    ELSE \* next is bound by a set so that one pass is evaluated before the next
         CHOOSE r \in {GradeLoop(next, i - 1) : next \in {GradePass(top, i)}} : TRUE

\* FindTop50 without the comparison of the two difficulties
RECURSIVE FindTop50_NoComparison(_, _, _)
FindTop50_NoComparison(list, i, top50) ==
    IF i > Len(list) THEN top50
    ELSE LET opr == [list[i] EXCEPT
                        !.Difficulty = ComputeDifficulty(list[i], list[i].Nonce)]
         IN  IF Len(top50) + 1 = 50 THEN Append(top50, opr)
             ELSE FindTop50_NoComparison(list, i + 1, Append(top50, opr))

\* the scan of GradeMinimum: each record's Difficulty is recomputed, a
\* record whose self reported difficulty differs is skipped, and the scan
\* ends with the 50th honest record
RECURSIVE FindTop50(_, _, _)
FindTop50(list, i, top50) ==
    IF i > Len(list) THEN top50
    ELSE LET opr == [list[i] EXCEPT
                        !.Difficulty = ComputeDifficulty(list[i], list[i].Nonce)]
             f == BigEndianUint64(opr.SelfReportedDifficulty)
         IN  IF f # opr.Difficulty THEN FindTop50(list, i + 1, top50)
             ELSE IF Len(top50) + 1 = 50 THEN Append(top50, opr)
             ELSE FindTop50(list, i + 1, Append(top50, opr))

\* A []*OraclePriceRecord holds pointers.  While a grading function runs,
\* each record carries in ptr its place in the list the function was given,
\* which stands for its address (the records of a list are different
\* objects).
Pointers(list) ==
    SeqOf([i \in 1..Len(list) |->
              [Nonce |-> list[i].Nonce, OPRHash |-> list[i].OPRHash,
               SelfReportedDifficulty |-> list[i].SelfReportedDifficulty,
               Difficulty |-> list[i].Difficulty, Grade |-> list[i].Grade,
               tokens |-> list[i].tokens, ptr |-> i]])

Deref(r) ==
    [Nonce |-> r.Nonce, OPRHash |-> r.OPRHash,
     SelfReportedDifficulty |-> r.SelfReportedDifficulty,
     Difficulty |-> r.Difficulty, Grade |-> r.Grade, tokens |-> r.tokens]

DerefAll(ptrs) == SeqOf([i \in 1..Len(ptrs) |-> Deref(ptrs[i])])

\* the caller's records once the records of written have been written to
Written(list, written) ==
    SeqOf([i \in 1..Len(list) |->
              IF \E r \in written : r.ptr = i
              THEN Deref(CHOOSE r \in written : r.ptr = i)
              ELSE list[i]])

\* GradeMinimum: [graded, list], what it returns and the caller's records as
\* it leaves them (the Difficulty of every record scanned and the Grade of
\* every record graded are written through the pointers)
GradeMinimum(sortedList0) ==
    IF Len(RemoveDuplicateSubmissions(sortedList0)) < 10
    THEN [graded |-> NilSlice, list |-> sortedList0]
    ELSE LET ptrs == Pointers(sortedList0)
             found == FindTop50(ptrs, 1, <<>>)
             top50 == GradeLoop(found, Len(found))
             last == IF Len(found) = 50 THEN found[50].ptr ELSE Len(ptrs)
             scanned == {[ptrs[i] EXCEPT !.Difficulty =
                              ComputeDifficulty(ptrs[i], ptrs[i].Nonce)] : i \in 1..last}
             kept == {top50[i] : i \in 1..Len(top50)}
         IN  [graded |-> Slice(DerefAll(top50)),
              list |-> Written(sortedList0,
                               kept \cup {r \in scanned :
                                             \A g \in kept : g.ptr # r.ptr})]

\* GradeBlock: [graded, sorted, list], what it returns and the caller's
\* records as it leaves them; both lists returned point to those records
GradeBlock(list0) ==
    LET list == RemoveDuplicateSubmissions(Pointers(list0))
    IN  IF Len(list) < 10
        THEN [graded |-> NilSlice, sorted |-> NilSlice, list |-> list0]
        ELSE LET byDiff == SortByDifficulty(list)
                 copied ==
                     IF Len(byDiff) > 50 THEN SubSeq(byDiff, 1, 50) ELSE byDiff
                 topDifficulty == GradeLoop(copied, Len(copied))
                 after == Written(list0, {topDifficulty[i] : i \in 1..Len(topDifficulty)})
             IN  [graded |-> Slice(DerefAll(topDifficulty)),
                  sorted |-> Slice(SeqOf([i \in 1..Len(byDiff) |-> after[byDiff[i].ptr]])),
                  list |-> after]

\* VerifyWinners: "true" or "false", or "panic" when winners[i] is indexed
\* out of range
VerifyWinners(refs, winners) ==
    LET F[i \in 0..Len(refs)] ==
            IF i = 0 THEN "true"
            ELSE LET prev == F[i - 1] IN
                 IF prev # "true" THEN prev
            ELSE IF winners.isNil /\ refs[i] # "" THEN "false"
            ELSE IF Len(winners.elems) > 0
                 THEN IF i > Len(winners.elems) THEN "panic"
                      ELSE IF refs[i] #
                              HexEncodeToString(SubSeq(winners.elems[i].EntryHash, 1, 8))
                           THEN "false"
                           ELSE "true"
                 ELSE "true"
    IN  F[Len(refs)]

\* an int64 amount as [units, frac]: units * 1e8 + frac, with 0 <= frac < 1e8
Times1e8(n) == [units |-> n, frac |-> 0]

\* GetRewardFromPlace with place > 10 for place >= 10
GetRewardFromPlace_OffByOne(p) ==
    IF p > 10 THEN Times1e8(0)
    ELSE IF p = 0 THEN Times1e8(800)
    ELSE IF p = 1 THEN Times1e8(600)
    ELSE Times1e8(450)

GetRewardFromPlace(p) ==
    IF p >= 10 THEN Times1e8(0)
    ELSE IF p = 0 THEN Times1e8(800)
    ELSE IF p = 1 THEN Times1e8(600)
    ELSE Times1e8(450)

(***************************************************************************)
(* package grader                                                          *)
(***************************************************************************)
\* filterDuplicates: bg.oprs afterwards
filterDuplicates(oprs) ==
    LET F[i \in 0..Len(oprs)] ==
            IF i = 0 THEN [added |-> {}, filtered |-> <<>>]
            ELSE LET id == AppendBytes(oprs[i].Nonce, oprs[i].OPRHash)
                     prev == F[i - 1]
                 IN  IF id \notin prev.added
                     THEN [added |-> prev.added \cup {id},
                           filtered |-> Append(prev.filtered, oprs[i])]
                     ELSE prev
    IN  F[Len(oprs)].filtered

\* the sort of sortByDifficulty; its less compares oprs[i] with oprs[i]
SortBySelfReported(oprs) ==
    SliceStable(oprs, [i, j \in 1..Len(oprs) |->
        oprs[i].SelfReportedDifficulty > oprs[i].SelfReportedDifficulty])

\* the scan of sortByDifficulty: a record whose hash differs from its self
\* reported difficulty is skipped, and the scan ends once topX holds limit
\* records
RECURSIVE FindTopX(_, _, _, _)
FindTopX(oprs, i, topX, limit) ==
    IF i > Len(oprs) THEN topX
    ELSE LET o == oprs[i]
             diff == BigEndianUint64(LXRHash(AppendBytes(o.OPRHash, o.Nonce)))
         IN  IF diff # o.SelfReportedDifficulty
             THEN FindTopX(oprs, i + 1, topX, limit)
             ELSE IF Len(topX) + 1 >= limit THEN Append(topX, o)
             ELSE FindTopX(oprs, i + 1, Append(topX, o), limit)

\* sortByDifficulty: bg.oprs afterwards
sortByDifficulty(oprs, limit) ==
    FindTopX(SortBySelfReported(oprs), 1, <<>>, limit)


(***************************************************************************)
(* The records the behaviours draw from.                                   *)
(***************************************************************************)
Reverse(s) == SeqOf([i \in 1..Len(s) |-> s[Len(s) + 1 - i]])

\* the sequences over S of length at most n
SeqsUpTo(S, n) == UNION {[1..k -> S] : k \in 0..n}

\* an OraclePriceRecord as the intake layer hands it over: Grade is 0 and
\* the second asset has no price
OPR(nonce, oprhash, reported, difficulty, price) ==
    [Nonce |-> nonce, OPRHash |-> oprhash,
     SelfReportedDifficulty |-> Bytes8(reported),
     Difficulty |-> difficulty, Grade |-> Frac(0, 1), tokens |-> <<price, 0>>]

\* a record that reports the difficulty its nonce has
HonestOPR(nonce, oprhash, price) ==
    LET d == BigEndianUint64(LXRHash(AppendBytes(oprhash, nonce)))
    IN  OPR(nonce, oprhash, d, d, price)

\* GradeMinimum wants its input sorted by self reported difficulty,
\* descending: the submitted lists are subsequences of this one.  Records 2
\* and 3 have the same id and different hashes, 6 and 7 are one submission
\* sent twice, 1 and 9 report a difficulty they do not have, 11 and 12 have
\* the same difficulty and the same prices, and the Difficulty of 1 and 14
\* has not been computed yet.
OprUniverse ==
    << OPR(<<9>>, <<9>>, 600, 0, 3),
       HonestOPR(<<1, 2>>, <<3>>, 2),
       HonestOPR(<<1>>, <<2, 3>>, 2),
       HonestOPR(<<2>>, <<1, 1>>, 2),
       HonestOPR(<<5>>, <<2>>, -1),
       HonestOPR(<<4>>, <<2>>, 2),
       HonestOPR(<<4>>, <<2>>, 2),
       HonestOPR(<<3>>, <<2>>, 1),
       OPR(<<8>>, <<1>>, 220, 221, 1),
       HonestOPR(<<2>>, <<2>>, 3),
       HonestOPR(<<6>>, <<1>>, 2),
       HonestOPR(<<1>>, <<2>>, 2),
       HonestOPR(<<3>>, <<1>>, 2),
       [HonestOPR(<<2>>, <<1>>, 1) EXCEPT !.Difficulty = 0],
       HonestOPR(<<1>>, <<1>>, 3) >>

\* honest records, all different, sorted like OprUniverse and of lower
\* difficulty: with them a list grows beyond 50 records
Fillers ==
    SeqOf([i \in 1..NumFillers |->
              HonestOPR(<<140 + NumFillers - i>>, <<0>>, 1 + (i % 3))])

SelfReported(opr) == BigEndianUint64(opr.SelfReportedDifficulty)

\* sorted by self reported difficulty, descending
IsSortedBySelfReported(list) ==
    \A i \in 1..(Len(list) - 1) : SelfReported(list[i]) >= SelfReported(list[i + 1])

\* a GradingOPR; its SelfReportedDifficulty is a uint64
GradingOPR(nonce, oprhash, reported) ==
    [Nonce |-> nonce, OPRHash |-> oprhash, SelfReportedDifficulty |-> reported]

HonestGradingOPR(nonce, oprhash) ==
    GradingOPR(nonce, oprhash,
               BigEndianUint64(LXRHash(AppendBytes(oprhash, nonce))))

\* the first two have the same id and different hashes, the fourth has the
\* id of the third and reports another difficulty, the last one reports a
\* difficulty above all others that it does not have
GraderUniverse ==
    { HonestGradingOPR(<<1>>, <<2, 3>>),
      HonestGradingOPR(<<1, 2>>, <<3>>),
      HonestGradingOPR(<<2>>, <<2>>),
      GradingOPR(<<2>>, <<2>>, 219),
      GradingOPR(<<3>>, <<1>>, 600) }

\* previous winners: the first two differ after their 8th byte only
WinnerUniverse ==
    { [EntryHash |-> <<171, 1, 2, 3, 4, 5, 6, 7, 8>>],
      [EntryHash |-> <<171, 1, 2, 3, 4, 5, 6, 7, 9>>],
      [EntryHash |-> <<0, 16, 2, 3, 4, 5, 6, 255, 8>>] }

ShortHash(w) == HexEncodeToString(SubSeq(w.EntryHash, 1, 8))

RefUniverse == {""} \cup {ShortHash(w) : w \in WinnerUniverse}

(***************************************************************************)
(* The state machine.                                                      *)
(***************************************************************************)
Idle ==
    /\ sortedList = <<>> /\ cursor = 0 /\ op = "none" /\ argList = <<>>
    /\ graded = NilSlice /\ sorted = NilSlice
    /\ bgOprs = <<>> /\ bgPrev = <<>> /\ bgLimit = 0
    /\ vwResult = "none" /\ reward = Times1e8(0)

Init ==
    /\ Idle
    /\ \/ /\ component \in {"opr", "grader"}
          /\ vwRefs = <<>> /\ vwWinners = NilSlice /\ place = 0
       \/ /\ component = "VerifyWinners"
          /\ vwRefs \in SeqsUpTo(RefUniverse, MaxRefs)
          /\ vwWinners \in {NilSlice} \cup
                 {Slice(w) : w \in SeqsUpTo(WinnerUniverse, MaxWinners)}
          /\ place = 0
       \/ /\ component = "GetRewardFromPlace"
          /\ vwRefs = <<>> /\ vwWinners = NilSlice
          /\ place \in (0 - NegPlaces)..MaxPlace

\* the caller appends a later record of OprUniverse, leaving out at most
\* MaxSkip records in all
Submit(k) ==
    /\ component = "opr" /\ op = "none"
    /\ k > cursor /\ Len(sortedList) <= cursor
    /\ k - 1 - Len(sortedList) <= MaxSkip
    /\ sortedList' = Append(sortedList, OprUniverse[k])
    /\ cursor' = k
    /\ UNCHANGED <<component, op, argList, graded, sorted, bgOprs, bgPrev,
                   bgLimit, vwRefs, vwWinners, vwResult, place, reward>>

\* the caller ends a list that left out no record with the fillers
SubmitFillers ==
    /\ component = "opr" /\ op = "none"
    /\ Len(sortedList) = cursor
    /\ sortedList' = sortedList \o Fillers
    /\ UNCHANGED <<component, cursor, op, argList, graded, sorted, bgOprs,
                   bgPrev, bgLimit, vwRefs, vwWinners, vwResult, place, reward>>

CallGradeMinimum ==
    /\ component = "opr" /\ op = "none"
    /\ IsSortedBySelfReported(sortedList)
    /\ \E r \in {GradeMinimum(sortedList)} :
          /\ op' = "GradeMinimum"
          /\ argList' = sortedList
          /\ graded' = r.graded
          /\ sortedList' = r.list
    /\ UNCHANGED <<component, cursor, sorted, bgOprs, bgPrev,
                   bgLimit, vwRefs, vwWinners, vwResult, place, reward>>

\* GradeBlock takes its records in any order: here in the order submitted
\* or in the opposite order
CallGradeBlock ==
    /\ component = "opr" /\ op = "none"
    /\ \E reversed \in BOOLEAN :
       \E list \in {IF reversed THEN Reverse(sortedList) ELSE sortedList} :
       \E r \in {GradeBlock(list)} :
          /\ op' = "GradeBlock"
          /\ argList' = list
          /\ graded' = r.graded
          /\ sorted' = r.sorted
          /\ sortedList' = IF reversed THEN Reverse(r.list) ELSE r.list
    /\ UNCHANGED <<component, cursor, bgOprs, bgPrev,
                   bgLimit, vwRefs, vwWinners, vwResult, place, reward>>

CallRemoveDuplicateSubmissions ==
    /\ component = "opr" /\ op = "none"
    /\ \E list \in {sortedList, Reverse(sortedList)} :
          /\ op' = "RemoveDuplicateSubmissions"
          /\ argList' = list
          /\ graded' = Slice(RemoveDuplicateSubmissions(list))
    /\ UNCHANGED <<component, sortedList, cursor, sorted, bgOprs, bgPrev,
                   bgLimit, vwRefs, vwWinners, vwResult, place, reward>>

\* records are added to a grader before it grades
AddOPR(o) ==
    /\ component = "grader" /\ op = "none"
    /\ Len(bgOprs) < MaxOprs
    /\ bgOprs' = Append(bgOprs, o)
    /\ UNCHANGED <<component, sortedList, cursor, op, argList, graded, sorted,
                   bgPrev, bgLimit, vwRefs, vwWinners, vwResult, place, reward>>

CallFilterDuplicates ==
    /\ component = "grader"
    /\ bgPrev' = bgOprs
    /\ bgOprs' = filterDuplicates(bgOprs)
    /\ op' = "filterDuplicates"
    /\ bgLimit' = 0
    /\ UNCHANGED <<component, sortedList, cursor, argList, graded, sorted,
                   vwRefs, vwWinners, vwResult, place, reward>>

CallSortByDifficulty(limit) ==
    /\ component = "grader"
    /\ bgPrev' = bgOprs
    /\ bgOprs' = sortByDifficulty(bgOprs, limit)
    /\ op' = "sortByDifficulty"
    /\ bgLimit' = limit
    /\ UNCHANGED <<component, sortedList, cursor, argList, graded, sorted,
                   vwRefs, vwWinners, vwResult, place, reward>>

CallVerifyWinners ==
    /\ component = "VerifyWinners" /\ op = "none"
    /\ op' = "VerifyWinners"
    /\ vwResult' = VerifyWinners(vwRefs, vwWinners)
    /\ UNCHANGED <<component, sortedList, cursor, argList, graded, sorted,
                   bgOprs, bgPrev, bgLimit, vwRefs, vwWinners, place,
                   reward>>

CallGetRewardFromPlace ==
    /\ component = "GetRewardFromPlace" /\ op = "none"
    /\ op' = "GetRewardFromPlace"
    /\ reward' = GetRewardFromPlace(place)
    /\ UNCHANGED <<component, sortedList, cursor, argList, graded, sorted,
                   bgOprs, bgPrev, bgLimit, vwRefs, vwWinners, vwResult,
                   place>>

Next ==
    \/ \E k \in 1..Len(OprUniverse) : Submit(k)
    \/ SubmitFillers
    \/ CallGradeMinimum
    \/ CallGradeBlock
    \/ CallRemoveDuplicateSubmissions
    \/ \E o \in GraderUniverse : AddOPR(o)
    \/ CallFilterDuplicates
    \/ \E limit \in 0..MaxLimit : CallSortByDifficulty(limit)
    \/ CallVerifyWinners
    \/ CallGetRewardFromPlace

Spec == Init /\ [][Next]_vars

(***************************************************************************)
(* What the properties below are stated with.                              *)
(***************************************************************************)
\* the identity key of a record: its nonce bytes followed by its record hash
IdentityKey(r) == r.Nonce \o r.OPRHash

\* the difficulty of a record, recomputed from hash(record_hash ++ nonce)
Recomputed(r) == BigEndianUint64(LXRHash(r.OPRHash \o r.Nonce))

IsHonestOPR(r) == Recomputed(r) = BigEndianUint64(r.SelfReportedDifficulty)

IsHonestGradingOPR(r) == Recomputed(r) = r.SelfReportedDifficulty

\* the positions of list that hold the first record of their identity key
FirstPositions(list) ==
    {i \in 1..Len(list) :
        \A j \in 1..(i - 1) : IdentityKey(list[j]) # IdentityKey(list[i])}

\* the records of list at the positions I, in the order of list
AtPositions(list, I) ==
    LET F[i \in 0..Len(list)] ==
            IF i = 0 THEN <<>>
            ELSE IF i \in I THEN Append(F[i - 1], list[i]) ELSE F[i - 1]
    IN  F[Len(list)]

Range(list) == {list[i] : i \in 1..Len(list)}

\* how many records of list are unique (the first of their key) and honest
UniqueHonest(list) ==
    Cardinality({i \in FirstPositions(list) : IsHonestOPR(list[i])})

Min(a, b) == IF a <= b THEN a ELSE b

\* two grades are the same number
FracEq(a, b) ==
    IF a.den = b.den THEN a.num = b.num ELSE a.num * b.den = b.num * a.den

(***************************************************************************)
(* C1.  Every record GradeMinimum returns, and every record a grader holds *)
(* after sortByDifficulty(limit), reports the difficulty that is           *)
(* recomputed from hash(record_hash ++ nonce): a record that reports       *)
(* another difficulty is never in the result, whatever it claims.          *)
(***************************************************************************)
C1_OnlyHonestRecords ==
    /\ op = "GradeMinimum" =>
          \A i \in 1..Len(graded.elems) :
              /\ IsHonestOPR(graded.elems[i])
              /\ graded.elems[i].Difficulty = Recomputed(graded.elems[i])
    /\ op = "sortByDifficulty" =>
          \A i \in 1..Len(bgOprs) : IsHonestGradingOPR(bgOprs[i])

\* GradeMinimum has graded a list whose first record claims the highest
\* difficulty of all and does not have it
C1_Witness ==
    /\ op = "GradeMinimum"
    /\ Len(graded.elems) >= 10
    /\ ~IsHonestOPR(argList[1])
    /\ \A i \in 1..Len(graded.elems) :
          SelfReported(argList[1]) > SelfReported(graded.elems[i])

(***************************************************************************)
(* C2.  GradeMinimum yields winners only when at least 10 records are      *)
(* unique and honest: with fewer the result is empty, with exactly 10 the  *)
(* result has exactly 10 records.                                          *)
(***************************************************************************)
C2_QuorumFloor ==
    op = "GradeMinimum" =>
        /\ UniqueHonest(argList) < 10 => Len(graded.elems) = 0
        /\ UniqueHonest(argList) = 10 => Len(graded.elems) = 10

(***************************************************************************)
(* C3.  Grading does not depend on the order of its input: GradeBlock      *)
(* returns the same graded records for a list and for the list reversed,   *)
(* and filterDuplicates followed by sortByDifficulty(limit) leaves a       *)
(* grader with the same records whichever two neighbours of its list are   *)
(* exchanged.                                                              *)
(***************************************************************************)
SwapAt(list, i) ==
    [list EXCEPT ![i] = list[i + 1], ![i + 1] = list[i]]

C3_OrderIndependent ==
    /\ op = "GradeBlock" => GradeBlock(Reverse(argList)).graded = graded
    /\ (component = "grader" /\ op = "none") =>
          \A limit \in 1..MaxLimit : \A i \in 1..(Len(bgOprs) - 1) :
              sortByDifficulty(filterDuplicates(SwapAt(bgOprs, i)), limit)
                  = sortByDifficulty(filterDuplicates(bgOprs), limit)

(***************************************************************************)
(* C4.  When GradeMinimum or GradeBlock grades at least 10 records, the    *)
(* first 10 records returned are in non-decreasing order of grade, each    *)
(* grade being the one computed from the averages over those 10 records,   *)
(* and any two of them with the same grade are in non-increasing order of  *)
(* difficulty.                                                             *)
(***************************************************************************)
C4_WinnersRanked ==
    (op \in {"GradeMinimum", "GradeBlock"} /\ Len(graded.elems) >= 10) =>
        LET w == SubSeq(graded.elems, 1, 10)
            avg == Avg(w)
        IN  /\ \A j \in 1..10 : w[j].Grade = CalculateGrade(avg, w[j]).Grade
            /\ \A j \in 1..9 : ~FracLess(w[j + 1].Grade, w[j].Grade)
            /\ \A j \in 1..10 : \A k \in (j + 1)..10 :
                  FracEq(w[j].Grade, w[k].Grade) =>
                      w[j].Difficulty >= w[k].Difficulty

\* more than 10 records were graded, and the winners hold two records of
\* different grades and two records of the same grade and of different
\* difficulties
C4_Witness ==
    /\ op \in {"GradeMinimum", "GradeBlock"}
    /\ Len(graded.elems) > 10
    /\ \E j, k \in 1..10 :
          FracLess(graded.elems[j].Grade, graded.elems[k].Grade)
    /\ \E j, k \in 1..10 :
          /\ j < k
          /\ FracEq(graded.elems[j].Grade, graded.elems[k].Grade)
          /\ graded.elems[j].Difficulty > graded.elems[k].Difficulty

(***************************************************************************)
(* C5.  RemoveDuplicateSubmissions and filterDuplicates return the first   *)
(* record of each identity key, in the order of the input: no two records  *)
(* of the output have the same key, every key of the input is in the       *)
(* output, and a record is dropped only if an earlier one has its key.     *)
(***************************************************************************)
IsFirstOccurrences(input, output) ==
    /\ output = AtPositions(input, FirstPositions(input))
    /\ \A i, j \in 1..Len(output) :
          i # j => IdentityKey(output[i]) # IdentityKey(output[j])
    /\ {IdentityKey(r) : r \in Range(input)} = {IdentityKey(r) : r \in Range(output)}

C6_NoPreviousWinners ==
    (op = "VerifyWinners" /\ Len(vwWinners.elems) = 0) =>
        (vwResult = "true" <=> \A i \in 1..Len(vwRefs) : vwRefs[i] = "")

(***************************************************************************)
(* C7.  With previous winners VerifyWinners returns, without aborting,     *)
(* true when the record has as many references as there are winners and    *)
(* each reference is the short hash of the winner at its position, and     *)
(* false otherwise.                                                        *)
(***************************************************************************)
C7_PositionalMatch ==
    (op = "VerifyWinners" /\ Len(vwWinners.elems) > 0) =>
        vwResult =
            IF /\ Len(vwRefs) = Len(vwWinners.elems)
               /\ \A i \in 1..Len(vwRefs) : vwRefs[i] = ShortHash(vwWinners.elems[i])
            THEN "true" ELSE "false"

(***************************************************************************)
(* C8.  GetRewardFromPlace returns 80000000000 for rank 0, 60000000000 for *)
(* rank 1, 45000000000 for the ranks 2 to 9 and 0 for the ranks from 10.   *)
(***************************************************************************)
\* the amount a decimal numeral denotes
Decimal(digits) ==
    LET F[i \in 0..Len(digits)] ==
            IF i = 0 THEN [units |-> 0, frac |-> 0]
            ELSE LET prev == F[i - 1]
                     low == prev.frac * 10 + digits[i]
                 IN  [units |-> prev.units * 10 + (low \div 100000000),
                      frac |-> low % 100000000]
    IN  F[Len(digits)]

C8_RewardTable ==
    (op = "GetRewardFromPlace" /\ place >= 0) =>
        reward = CASE place = 0 -> Decimal(<<8, 0, 0, 0, 0, 0, 0, 0, 0, 0, 0>>)
                   [] place = 1 -> Decimal(<<6, 0, 0, 0, 0, 0, 0, 0, 0, 0, 0>>)
                   [] place \in 2..9 -> Decimal(<<4, 5, 0, 0, 0, 0, 0, 0, 0, 0, 0>>)
                   [] OTHER -> Decimal(<<0>>)

\* the reward of the first rank that earns nothing
C8_Witness ==
    op = "GetRewardFromPlace" /\ place = 10 /\ reward = Decimal(<<0>>)

(***************************************************************************)
(* C9.  After sortByDifficulty(limit) with limit >= 1 the grader holds     *)
(* min(limit, number of honest records) records, in non-increasing order   *)
(* of self reported difficulty, and no honest record that was left out     *)
(* reports a higher difficulty than a record that was kept.                *)
(***************************************************************************)
C9_TopByDifficulty ==
    (op = "sortByDifficulty" /\ bgLimit >= 1) =>
        LET honest == {i \in 1..Len(bgPrev) : IsHonestGradingOPR(bgPrev[i])}
        IN  /\ Len(bgOprs) = Min(bgLimit, Cardinality(honest))
            /\ \A i \in 1..(Len(bgOprs) - 1) :
                  bgOprs[i].SelfReportedDifficulty >=
                      bgOprs[i + 1].SelfReportedDifficulty
            /\ \A i \in honest : \A kept \in Range(bgOprs) :
                  bgPrev[i] \notin Range(bgOprs) =>
                      bgPrev[i].SelfReportedDifficulty <= kept.SelfReportedDifficulty

(***************************************************************************)
(* C10.  No two records of the list GradeMinimum returns have the same     *)
(* identity key: a submission sent twice is graded once.                   *)
(***************************************************************************)
C10_GradedOnce ==
    op = "GradeMinimum" =>
        \A i, j \in 1..Len(graded.elems) :
            i # j => IdentityKey(graded.elems[i]) # IdentityKey(graded.elems[j])

=============================================================================
